---- MODULE Spec2Model ----
(***************************************************************************)
(* Dividend-Strategy-Analyzer: the scalping backtest engine                *)
(* (strategy.py, calculate_scalping_strategy / fetch_data) and the         *)
(* Streamlit session-state handling around it (app.py).                    *)
(***************************************************************************)
EXTENDS Integers, Sequences, FiniteSets, TLC

VARIABLES
    pc,           \* where calculate_scalping_strategy stands
    provider,     \* what yfinance answers to the next fetch_data
    max_days,     \* the max_days argument
    history,      \* local: the price history (None, or a frame)
    dividends,    \* local: the dividend series (None, or a series)
    results,      \* local: the list of result rows / the returned table
    k,            \* position of the for loop in dividends.items()
    raised,       \* the exception that left the function, or "none"
    run,          \* 1: first invocation, 2: invocation on the same objects
    first,        \* what the first invocation returned
    ticker,       \* app: the text input
    session,      \* app: st.session_state
    message,      \* app: st.error / st.success shown by the last script run
    rendered,     \* app: what the rendering section drew in the last run
    event,        \* app: what triggered the last script run
    last          \* app: the latest Analyze press (ticker, engine result)

engineVars == <<pc, provider, max_days, history, dividends, results, k,
                raised, run, first>>

appVars == <<ticker, session, message, rendered, event, last>>

vars == <<pc, provider, max_days, history, dividends, results, k, raised,
          run, first, ticker, session, message, rendered, event, last>>

\* ---------------------------------------------------------------- bounds

\* Trading calendar: civil dates are 1..MaxDate.
MaxDate == 3
\* Longest dividend series the provider supplies.
MaxDivs == 3
\* max_days is drawn from 1..MaxDaysBound.
MaxDaysBound == 2
\* Significand width of the floating-point format (53 in the program's
\* IEEE doubles; the rounding rule is the same, round-to-nearest-even).
Precision == 5
\* The default of the max_days parameter, used by the presentation layer.
DefaultMaxDays == 14

\* ------------------------------------------------- floating-point numbers
\* A float is [k, m, e]: k = "fin" is the value m * 2^e, with m = 0 or
\* 2^(Precision-1) <= |m| < 2^Precision; k = "inf" is m * infinity
\* (m = 1 or -1); k = "nan" is not-a-number.

Abs(n) == IF n < 0 THEN -n ELSE n

Sgn(n) == IF n < 0 THEN -1 ELSE IF n = 0 THEN 0 ELSE 1

Min(a, b) == IF a <= b THEN a ELSE b

RECURSIVE BitLen(_)
BitLen(n) == IF n = 0 THEN 0 ELSE 1 + BitLen(n \div 2)

Fin(m, e) == [k |-> "fin", m |-> m, e |-> e]

Inf(s) == [k |-> "inf", m |-> s, e |-> 0]

NaN == [k |-> "nan", m |-> 0, e |-> 0]

\* n * 2^e rounded to Precision significant bits, ties to even.
RoundDyadic(n, e) ==
    LET a  == Abs(n)
        bl == BitLen(a)
    IN  IF a = 0 THEN Fin(0, 0)
        ELSE IF bl <= Precision
        THEN Fin(n * 2^(Precision - bl), e - (Precision - bl))
        ELSE LET sh   == bl - Precision
                 q    == a \div 2^sh
                 r    == a % 2^sh
                 half == 2^(sh - 1)
                 up   == r > half \/ (r = half /\ q % 2 = 1)
                 q2   == IF up THEN q + 1 ELSE q
             IN  IF q2 = 2^Precision
                 THEN Fin(Sgn(n) * 2^(Precision - 1), e + sh + 1)
                 ELSE Fin(Sgn(n) * q2, e + sh)

FromInt(i) == RoundDyadic(i, 0)

Hundred == FromInt(100)

FNeg(x) == [x EXCEPT !.m = -x.m]

FAdd(x, y) ==
    IF x.k = "nan" \/ y.k = "nan" THEN NaN
    ELSE IF x.k = "inf" /\ y.k = "inf"
    THEN (IF x.m = y.m THEN x ELSE NaN)
    ELSE IF x.k = "inf" THEN x
    ELSE IF y.k = "inf" THEN y
    ELSE IF x.m = 0 THEN y
    ELSE IF y.m = 0 THEN x
    ELSE LET lo == Min(x.e, y.e)
         IN  RoundDyadic(x.m * 2^(x.e - lo) + y.m * 2^(y.e - lo), lo)

FSub(x, y) == FAdd(x, FNeg(y))

FMul(x, y) ==
    IF x.k = "nan" \/ y.k = "nan" THEN NaN
    ELSE IF x.k = "inf" \/ y.k = "inf"
    THEN (IF x.m = 0 \/ y.m = 0 THEN NaN ELSE Inf(Sgn(x.m) * Sgn(y.m)))
    ELSE RoundDyadic(x.m * y.m, x.e + y.e)

\* numpy float64 division: x/0 is +-inf, 0/0 is nan, no exception.
FDiv(x, y) ==
    IF x.k = "nan" \/ y.k = "nan" THEN NaN
    ELSE IF x.k = "inf"
    THEN (IF y.k = "inf" THEN NaN
          ELSE Inf(x.m * (IF y.m < 0 THEN -1 ELSE 1)))
    ELSE IF y.k = "inf" THEN Fin(0, 0)
    ELSE IF y.m = 0
    THEN (IF x.m = 0 THEN NaN ELSE Inf(Sgn(x.m)))
    ELSE IF x.m = 0 THEN Fin(0, 0)
    ELSE LET sc  == Precision + 1
             num == Abs(x.m) * 2^sc
             den == Abs(y.m)
             q   == num \div den
             st  == IF num % den = 0 THEN 0 ELSE 1
         IN  RoundDyadic(Sgn(x.m) * Sgn(y.m) * (2 * q + st),
                         x.e - y.e - sc - 1)

\* IEEE equality: nan equals nothing, itself included.
FEq(x, y) == x.k # "nan" /\ y.k # "nan" /\ x = y

FPos(x) == x.k # "nan" /\ x.m > 0

\* ------------------------------------------------------ frames and series
\* A timestamp is [d, t]: civil date d and time of day t, as the wall clock
\* of its index's timezone shows them. An index carries one timezone for
\* all its entries ("None": timezone-naive).

TZs == {"None", "UTC", "America/New_York"}

Tods == {0, 1}

TicksPerDay == Cardinality(Tods)

\* UTC offset of a timezone, in units of time of day.
Offset(tz) == IF tz = "America/New_York" THEN -1 ELSE 0

NoneObj == [kind |-> "None", tz |-> "None", rows |-> << >>]

Frame(tz, rows) == [kind |-> "frame", tz |-> tz, rows |-> rows]

Dates == 1..MaxDate

RECURSIVE Ascending(_)
Ascending(S) ==
    IF S = {} THEN << >>
    ELSE LET lo == CHOOSE x \in S : \A y \in S : x <= y
         IN  <<lo>> \o Ascending(S \ {lo})

\* Price histories: one row per trading session, ascending, no date twice.
Histories(prices, tzs, tods) ==
    UNION { { Frame(tz, [i \in 1..Cardinality(S) |->
                          [ts    |-> [d |-> Ascending(S)[i], t |-> t],
                           Close |-> FromInt(pf[Ascending(S)[i]])]])
              : pf \in [S -> prices], tz \in tzs, t \in tods }
            : S \in SUBSET Dates }

\* Dividend series: keyed by date (no date twice), in any order.
DividendSeries(amounts, maxn, tzs, tods) ==
    UNION { { Frame(tz, [i \in 1..n |->
                          [ts     |-> [d |-> f[i][1], t |-> t],
                           amount |-> FromInt(f[i][2])]])
              : f \in { g \in [1..n -> Dates \X amounts] :
                         \A i, j \in 1..n : i # j => g[i][1] # g[j][1] },
                tz \in tzs, t \in tods }
            : n \in 0..maxn }

\* What the two yfinance calls of fetch_data give: an exception, or a
\* history and a dividend series, each of which may be None or empty.
Outcomes(hs, ds) ==
    { [error |-> TRUE, history |-> NoneObj, dividends |-> NoneObj] }
    \cup { [error |-> FALSE, history |-> h, dividends |-> d]
            : h \in hs \cup {NoneObj}, d \in ds \cup {NoneObj} }

\* ------------------------------------------------------------ strategy.py

IsNone(x) == x.kind = "None"

\* x.empty: an AttributeError on None, else whether there are no rows.
Empty(x) == IF IsNone(x) THEN "AttributeError"
            ELSE IF Len(x.rows) = 0 THEN "True" ELSE "False"

\* GuardEval without the "dividends is None" operand.
GuardEvalNoNoneCheck(h, d) ==
    IF IsNone(h) THEN "True"
    ELSE IF Empty(h) # "False" THEN Empty(h)
    ELSE Empty(d)

\* history is None or history.empty or dividends is None or dividends.empty,
\* evaluated left to right, each "or" stopping at the first true operand.
GuardEval(h, d) ==
    IF IsNone(h) THEN "True"
    ELSE IF Empty(h) # "False" THEN Empty(h)
    ELSE IF IsNone(d) THEN "True"
    ELSE Empty(d)

\* index.tz_convert(None) in place of tz_localize(None): the wall clock is
\* moved to UTC, and a timezone-naive index is a TypeError.
TzConvertNone(x) ==
    IF x.tz = "None" THEN [x EXCEPT !.kind = "TypeError"]
    ELSE [x EXCEPT !.tz = "None",
                   !.rows = [i \in 1..Len(x.rows) |->
                       [x.rows[i] EXCEPT
                           !.ts = [d |-> (x.rows[i].ts.d * Cardinality(Tods)
                                          + x.rows[i].ts.t - Offset(x.tz))
                                         \div Cardinality(Tods),
                                   t |-> (x.rows[i].ts.d * Cardinality(Tods)
                                          + x.rows[i].ts.t - Offset(x.tz))
                                         % Cardinality(Tods)]]]]

\* index.tz_localize(None): the timezone is dropped and the wall-clock
\* date and time of day are kept; a timezone-naive index is left as it is.
TzLocalizeNone(x) == [x EXCEPT !.tz = "None"]

\* The list of the previous invocation kept (a mutable default argument).
KeptResults(old) == old

\* results = []
NewResults(old) == << >>

\* The instant of a timestamp of an index of timezone tz.
Instant(ts, tz) == ts.d * TicksPerDay + ts.t - Offset(tz)

\* date in history.index, for a timestamp of an index of timezone tz: a
\* timezone-aware and a timezone-naive timestamp never match, two aware
\* ones match as instants, two naive ones as wall-clock values.
InIndex(ts, tz, h) ==
    /\ (tz = "None") = (h.tz = "None")
    /\ \E i \in 1..Len(h.rows) : Instant(h.rows[i].ts, h.tz) = Instant(ts, tz)

\* history.index.get_loc(date): the 0-based position of the matching row.
GetLoc(ts, tz, h) ==
    (CHOOSE i \in 1..Len(h.rows) :
        Instant(h.rows[i].ts, h.tz) = Instant(ts, tz)) - 1

\* Python's position i of a sequence of length n, as a 1-based position: a
\* negative i counts from the end.
Pos(i, n) == IF i < 0 THEN n + i + 1 ELSE i + 1

\* history.index[i] and history.loc[history.index[i], "Close"].
IndexAt(h, i) == h.rows[Pos(i, Len(h.rows))].ts

CloseAt(h, i) == h.rows[Pos(i, Len(h.rows))].Close

\* The net gain without the dividend.
NetGainPctNoDividend(sell_price, div_amount, buy_price) ==
    FMul(FDiv(FSub(sell_price, buy_price), buy_price), Hundred)

NetGainPct(sell_price, div_amount, buy_price) ==
    FMul(FDiv(FSub(FAdd(sell_price, div_amount), buy_price), buy_price),
         Hundred)

DivGainPct(div_amount, buy_price) ==
    FMul(FDiv(div_amount, buy_price), Hundred)

DaysHeldOf(n) == n + 1

\* One appended row. Buy Date and Sell Date are .date() values (no time of
\* day); Ex-Date is the dividend's timestamp itself.
Row(date, div_amount, buy_date, buy_price, n, sell_date, sell_price) ==
    [ExDate          |-> date,
     Dividend        |-> div_amount,
     BuyDate         |-> buy_date.d,
     BuyPrice        |-> buy_price,
     DaysHeld        |-> DaysHeldOf(n),
     SellDate        |-> sell_date.d,
     SellPrice       |-> sell_price,
     NetGainPct      |-> NetGainPct(sell_price, div_amount, buy_price),
     DividendGainPct |-> DivGainPct(div_amount, buy_price)]

\* Buying on the ex-date itself.
BuyPosOnExDate(ex_date_idx) == ex_date_idx

\* Selling strictly after the ex-date: day 1 is the session after it.
SellPosAfterExDate(ex_date_idx, n) == ex_date_idx + n + 1

\* The break dropping the rows the event already has.
BreakDropsEvent(acc) == << >>

\* New rows put in front of the list.
PrependRows(res, rows) == rows \o res

\* buy_date = history.index[ex_date_idx - 1]
BuyPos(ex_date_idx) == ex_date_idx - 1

\* target_sell_idx = ex_date_idx + n
SellPos(ex_date_idx, n) == ex_date_idx + n

\* if target_sell_idx >= len(history)
HistoryEnds(h, target_sell_idx) == target_sell_idx >= Len(h.rows)

\* break: the rows appended so far stay.
Break(acc) == acc

\* results.append(row), and the same for the rows of one event.
AppendRows(res, rows) == res \o rows

\* for n in range(0, max_days): the rows one dividend event appends.
RECURSIVE SellLoop(_, _, _, _, _, _)
SellLoop(h, ev, ex_date_idx, md, n, acc) ==
    IF n >= md THEN acc
    ELSE IF HistoryEnds(h, SellPos(ex_date_idx, n)) THEN Break(acc)
    ELSE SellLoop(h, ev, ex_date_idx, md, n + 1,
                  AppendRows(acc,
                      <<Row(ev.ts, ev.amount,
                            IndexAt(h, BuyPos(ex_date_idx)),
                            CloseAt(h, BuyPos(ex_date_idx)),
                            n,
                            IndexAt(h, SellPos(ex_date_idx, n)),
                            CloseAt(h, SellPos(ex_date_idx, n)))>>))

\* if date not in history.index: continue
NotTrading(h, d, ev) == ~InIndex(ev.ts, d.tz, h)

\* The guard off by one: position 0 is let through.
NoPriorOffByOne(ex_date_idx) == ex_date_idx < 0

\* if ex_date_idx < 1: continue
NoPrior(ex_date_idx) == ex_date_idx < 1

\* The body of the outer loop for one dividend event.
EventRows(h, d, ev, md) ==
    IF NotTrading(h, d, ev) THEN << >>
    ELSE IF NoPrior(GetLoc(ev.ts, d.tz, h)) THEN << >>
    ELSE SellLoop(h, ev, GetLoc(ev.ts, d.tz, h), md, 0, << >>)

\* fetch_data(ticker): (None, None) on any exception.
FetchData(p) ==
    IF p.error THEN <<NoneObj, NoneObj>> ELSE <<p.history, p.dividends>>

\* for date, div_amount in dividends.items(): from position i on.
RECURSIVE DividendLoop(_, _, _, _, _)
DividendLoop(h, d, md, i, acc) ==
    IF i > Len(d.rows) THEN acc
    ELSE DividendLoop(h, d, md, i + 1,
                      AppendRows(acc, EventRows(h, d, d.rows[i], md)))

\* Whether a call gave an exception instead of a value.
Raises(x) == x.kind \notin {"None", "frame"}

\* calculate_scalping_strategy as a function of what the provider answers:
\* the exception that leaves it ("none" if none) and the returned table.
Strategy(p, md) ==
    LET fd == FetchData(p)
        g  == GuardEval(fd[1], fd[2])
        d  == TzLocalizeNone(fd[2])
        h  == TzLocalizeNone(fd[1])
    IN  IF g = "AttributeError" THEN [raised |-> g, table |-> << >>]
        ELSE IF g = "True" THEN [raised |-> "none", table |-> << >>]
        ELSE IF Raises(d) THEN [raised |-> d.kind, table |-> << >>]
        ELSE IF Raises(h) THEN [raised |-> h.kind, table |-> << >>]
        ELSE [raised |-> "none",
              table  |-> DividendLoop(h, d, md, 1, NewResults(<< >>))]

\* ------------------------------------------------ the engine, step by step

\* history, dividends = fetch_data(ticker); the second invocation is
\* handed the objects of the first, as that one left them.
Fetch ==
    /\ pc = "call"
    /\ history' = IF run = 1 THEN FetchData(provider)[1] ELSE history
    /\ dividends' = IF run = 1 THEN FetchData(provider)[2] ELSE dividends
    /\ pc' = "guard"
    /\ UNCHANGED <<provider, max_days, results, k, raised, run, first>>
    /\ UNCHANGED appVars

\* The guard holds (or cannot be evaluated): return pd.DataFrame().
EarlyReturn ==
    /\ pc = "guard"
    /\ GuardEval(history, dividends) # "False"
    /\ raised' = IF GuardEval(history, dividends) = "True" THEN "none"
                 ELSE GuardEval(history, dividends)
    /\ results' = << >>
    /\ pc' = "done"
    /\ UNCHANGED <<provider, max_days, history, dividends, k, run, first>>
    /\ UNCHANGED appVars

\* The guard fails: results = [], both indexes made timezone-naive (the
\* dividends' first), and the loop over the dividend events begins.
Begin ==
    /\ pc = "guard"
    /\ GuardEval(history, dividends) = "False"
    /\ LET d == TzLocalizeNone(dividends)
           h == TzLocalizeNone(history)
       IN  IF Raises(d)
           THEN /\ raised' = d.kind
                /\ pc' = "done"
                /\ UNCHANGED <<history, dividends>>
           ELSE IF Raises(h)
           THEN /\ raised' = h.kind
                /\ pc' = "done"
                /\ dividends' = d
                /\ UNCHANGED history
           ELSE /\ dividends' = d
                /\ history' = h
                /\ pc' = "loop"
                /\ UNCHANGED raised
    /\ results' = NewResults(results)
    /\ k' = 1
    /\ UNCHANGED <<provider, max_days, run, first>>
    /\ UNCHANGED appVars

AtEvent == pc = "loop" /\ k <= Len(dividends.rows)

\* The event's date is no trading session: continue.
SkipNotTrading ==
    /\ AtEvent
    /\ NotTrading(history, dividends, dividends.rows[k])
    /\ k' = k + 1
    /\ UNCHANGED <<pc, provider, max_days, history, dividends, results,
                   raised, run, first>>
    /\ UNCHANGED appVars

\* The event's date is the first session: continue.
SkipNoPrior ==
    /\ AtEvent
    /\ ~NotTrading(history, dividends, dividends.rows[k])
    /\ NoPrior(GetLoc(dividends.rows[k].ts, dividends.tz, history))
    /\ k' = k + 1
    /\ UNCHANGED <<pc, provider, max_days, history, dividends, results,
                   raised, run, first>>
    /\ UNCHANGED appVars

\* The event is aligned: the inner loop appends its rows.
EmitEvent ==
    /\ AtEvent
    /\ ~NotTrading(history, dividends, dividends.rows[k])
    /\ ~NoPrior(GetLoc(dividends.rows[k].ts, dividends.tz, history))
    /\ results' = AppendRows(results,
                      SellLoop(history, dividends.rows[k],
                               GetLoc(dividends.rows[k].ts, dividends.tz,
                                      history),
                               max_days, 0, << >>))
    /\ k' = k + 1
    /\ UNCHANGED <<pc, provider, max_days, history, dividends, raised,
                   run, first>>
    /\ UNCHANGED appVars

\* return pd.DataFrame(results)
Return ==
    /\ pc = "loop"
    /\ k > Len(dividends.rows)
    /\ pc' = "done"
    /\ UNCHANGED <<provider, max_days, history, dividends, results, k,
                   raised, run, first>>
    /\ UNCHANGED appVars

\* A second invocation that is handed the very objects the first one
\* processed (their indexes as the first run left them).
Reinvoke ==
    /\ pc = "done"
    /\ run = 1
    /\ raised = "none"
    /\ run' = 2
    /\ first' = results
    /\ pc' = "call"
    /\ UNCHANGED <<provider, max_days, history, dividends, results, k,
                   raised>>
    /\ UNCHANGED appVars

\* ------------------------------------------------------------------ app.py

Tickers == {"KO", "T"}

Stats == {"Average", "Median", "Count"}

NoDf == [kind |-> "None", rows |-> << >>, year |-> FALSE]

\* st.session_state after the first script run: both keys set to None.
FreshSession == [df |-> NoDf, current_ticker |-> "None", stat |-> "Average"]

Nothing == [drawn |-> FALSE, title |-> "None", stat |-> "None",
            log |-> << >>, year |-> FALSE]

\* The Analyze branch without st.session_state['df'] = None.
AnalyzeKeepsStale(sess, tk, eng) ==
    IF eng.raised # "none" THEN [session |-> sess, message |-> "exception"]
    ELSE IF Len(eng.table) = 0
    THEN [session |-> sess, message |-> "error"]
    ELSE [session |-> [sess EXCEPT
                          !.df = [kind |-> "frame", rows |-> eng.table,
                                  year |-> FALSE],
                          !.current_ticker = tk],
          message |-> "success"]

\* The Analyze branch: what it stores and which message it shows.
Analyze(sess, tk, eng) ==
    IF eng.raised # "none" THEN [session |-> sess, message |-> "exception"]
    ELSE IF Len(eng.table) = 0
    THEN [session |-> [sess EXCEPT !.df = NoDf], message |-> "error"]
    ELSE [session |-> [sess EXCEPT
                          !.df = [kind |-> "frame", rows |-> eng.table,
                                  year |-> FALSE],
                          !.current_ticker = tk],
          message |-> "success"]

\* The rendering section: charts titled with current_ticker, and the
\* transaction log of the stored frame, to which it adds the Year column.
Render(sess) ==
    IF sess.df.kind = "None" THEN Nothing
    ELSE [drawn |-> TRUE, title |-> sess.current_ticker, stat |-> sess.stat,
          log |-> sess.df.rows, year |-> TRUE]

\* The session state the rendering section leaves: df with its Year column;
\* the selectbox keeps its value only while it is drawn.
AfterRender(sess) ==
    IF sess.df.kind = "None" THEN [sess EXCEPT !.stat = "Average"]
    ELSE [sess EXCEPT !.df.year = TRUE]

\* One run of the script; an exception ends it before anything is drawn.
ScriptRun(sess, msg, ev) ==
    /\ message' = msg
    /\ event' = ev
    /\ rendered' = IF msg = "exception" THEN Nothing ELSE Render(sess)
    /\ session' = IF msg = "exception" THEN sess ELSE AfterRender(sess)

\* Ticker responses the presentation layer is run against.
AppOutcomes ==
    Outcomes(Histories({2}, {"America/New_York"}, {0}),
             DividendSeries({1}, 1, {"America/New_York"}, {0}))

EditTicker ==
    /\ pc = "idle"
    /\ \E t \in Tickers \ {ticker} :
          /\ ticker' = t
          /\ ScriptRun(session, "none", "edit")
    /\ UNCHANGED last
    /\ UNCHANGED engineVars

SelectMetric ==
    /\ pc = "idle"
    /\ rendered.drawn
    /\ \E st \in Stats \ {session.stat} :
          ScriptRun([session EXCEPT !.stat = st], "none", "select")
    /\ UNCHANGED <<ticker, last>>
    /\ UNCHANGED engineVars

PressAnalyze ==
    /\ pc = "idle"
    /\ \E p \in AppOutcomes :
          LET eng == Strategy(p, DefaultMaxDays)
              a   == Analyze(session, ticker, eng)
          IN  /\ ScriptRun(a.session, a.message, "analyze")
              /\ last' = [pressed |-> TRUE, ticker |-> ticker,
                          table |-> eng.table, raised |-> eng.raised]
    /\ UNCHANGED ticker
    /\ UNCHANGED engineVars

\* ---------------------------------------------------------- specifications

AppIdle ==
    /\ ticker = "KO"
    /\ session = FreshSession
    /\ message = "none"
    /\ rendered = Nothing
    /\ event = "load"
    /\ last = [pressed |-> FALSE, ticker |-> "None", table |-> << >>,
               raised |-> "none"]

EngineStart(outcomes) ==
    /\ pc = "call"
    /\ provider \in outcomes
    /\ max_days \in 1..MaxDaysBound
    /\ history = NoneObj
    /\ dividends = NoneObj
    /\ results = << >>
    /\ k = 0
    /\ raised = "none"
    /\ run = 1
    /\ first = << >>

EngineIdle ==
    /\ pc = "idle"
    /\ provider = [error |-> TRUE, history |-> NoneObj, dividends |-> NoneObj]
    /\ max_days = DefaultMaxDays
    /\ history = NoneObj
    /\ dividends = NoneObj
    /\ results = << >>
    /\ k = 0
    /\ raised = "none"
    /\ run = 1
    /\ first = << >>

\* Alignment: sessions with gaps, two prices, dividend events in any order;
\* both indexes as yfinance stamps them (exchange timezone, midnight).
Init ==
    /\ EngineStart(Outcomes(Histories({1, 2}, {"America/New_York"}, {0}),
                            DividendSeries({1}, MaxDivs,
                                           {"America/New_York"}, {0})))
    /\ AppIdle

\* Arithmetic: more prices (zero among them) and amounts, one event.
InitNum ==
    /\ EngineStart(Outcomes(Histories({0, 1, 3, 5}, {"None"}, {0}),
                            DividendSeries({1, 2}, 1, {"None"}, {0})))
    /\ AppIdle

\* Calendars: every timezone annotation and time of day on either index.
InitTz ==
    /\ EngineStart(Outcomes(Histories({2}, TZs, Tods),
                            DividendSeries({1}, 1, TZs, Tods)))
    /\ AppIdle

InitApp == EngineIdle /\ AppIdle

Next ==
    \/ Fetch
    \/ EarlyReturn
    \/ Begin
    \/ SkipNotTrading
    \/ SkipNoPrior
    \/ EmitEvent
    \/ Return
    \/ Reinvoke

NextApp ==
    \/ EditTicker
    \/ SelectMetric
    \/ PressAnalyze

Spec == Init /\ [][Next]_vars

SpecNum == InitNum /\ [][Next]_vars

SpecTz == InitTz /\ [][Next]_vars

SpecApp == InitApp /\ [][NextApp]_vars

\* ------------------------------------------------------------------ claims

\* What the provider answered, as the claims speak of it.
Unavailable ==
    \/ provider.error
    \/ provider.history.kind = "None"
    \/ provider.dividends.kind = "None"
    \/ Len(provider.history.rows) = 0
    \/ Len(provider.dividends.rows) = 0

Sessions == provider.history.rows

Events == provider.dividends.rows

\* The 1-based positions of the sessions on the civil date of event ev.
SessionsOn(ev) == { p \in 1..Len(Sessions) : Sessions[p].ts.d = ev.ts.d }

\* The positions in the output of the rows of the event of civil date x.
RowsOf(x) == { j \in 1..Len(results) : results[j].ExDate.d = x }

\* C1: a failed fetch, or a missing or empty history or dividend series,
\* in every combination, ends in an empty table and no exception, and the
\* loop over the events is never entered.
C1_EmptyWhenUnavailable ==
    Unavailable =>
        /\ pc # "loop"
        /\ raised = "none"
        /\ pc = "done" => results = << >>

C1_Witness ==
    /\ pc = "done"
    /\ ~provider.error
    /\ provider.history.kind = "frame"
    /\ Len(provider.history.rows) > 0
    /\ provider.dividends.kind = "None"
    /\ results = << >>
    /\ raised = "none"

\* An event the engine has to skip: no session on its date, or its date is
\* the first session.
MustSkip(ev) == SessionsOn(ev) = {} \/ 1 \in SessionsOn(ev)

\* The provider's answer with event i taken out of the dividend series.
WithoutEvent(i) ==
    [provider EXCEPT !.dividends.rows =
        [j \in 1..(Len(Events) - 1) |->
            IF j < i THEN Events[j] ELSE Events[j + 1]]]

\* C2: an event whose date is no session, or is the first session, gets no
\* row and raises nothing, and the table is the one the run without that
\* event returns.
C2_SkippedEventsLeaveNoTrace ==
    (pc = "done" /\ ~Unavailable) =>
        /\ raised = "none"
        /\ \A i \in 1..Len(Events) :
              MustSkip(Events[i]) =>
                 /\ RowsOf(Events[i].ts.d) = {}
                 /\ results = Strategy(WithoutEvent(i), max_days).table

C2_Witness ==
    /\ pc = "done"
    /\ ~Unavailable
    /\ \E i, j \in 1..Len(Events) :
          /\ SessionsOn(Events[i]) = {}
          /\ 1 \in SessionsOn(Events[j])
    /\ results # << >>

\* C3: every row buys at the session just before the ex-date session, at
\* that session's close, and sells at the close of the session of its sell
\* date: both prices are prices of the series.
C3_PricesFromSeries ==
    \A j \in 1..Len(results) :
        \E p \in 2..Len(Sessions) :
            /\ Sessions[p].ts.d = results[j].ExDate.d
            /\ results[j].BuyDate = Sessions[p - 1].ts.d
            /\ results[j].BuyPrice = Sessions[p - 1].Close
            /\ \E q \in p..Len(Sessions) :
                  /\ results[j].SellDate = Sessions[q].ts.d
                  /\ results[j].SellPrice = Sessions[q].Close

C3_Witness ==
    /\ pc = "done"
    /\ \E j \in 1..Len(results) :
          /\ results[j].BuyPrice # results[j].SellPrice
          /\ results[j].SellDate > results[j].ExDate.d

Expected(p) == Min(max_days, Len(Sessions) - (p - 1))

\* C5: an event at (0-based) position p >= 1 of a history of length L has
\* exactly min(max_days, L - p) rows, also when an earlier event ran into
\* the end of the history; the table has at most (events) x max_days rows.
C5_RowCounts ==
    (pc \in {"loop", "done"} /\ ~Unavailable) =>
        /\ \A i \in 1..(k - 1) : \A p \in SessionsOn(Events[i]) :
              p >= 2 => Cardinality(RowsOf(Events[i].ts.d)) = Expected(p)
        /\ Len(results) <= Len(Events) * max_days

C5_Witness ==
    /\ pc = "done"
    /\ \E i, j \in 1..Len(Events) :
          /\ i < j
          /\ \E p \in SessionsOn(Events[i]) :
                p >= 2 /\ Expected(p) < max_days
          /\ RowsOf(Events[i].ts.d) # {}
          /\ Cardinality(RowsOf(Events[j].ts.d)) = max_days

\* Exact arithmetic on dyadic numbers m * 2^e (no rounding), to measure
\* what rounding did.
DAdd(x, y) ==
    LET lo == Min(x.e, y.e)
    IN  Fin(x.m * 2^(x.e - lo) + y.m * 2^(y.e - lo), lo)

DMul(x, y) == Fin(x.m * y.m, x.e + y.e)

DAbs(x) == Fin(Abs(x.m), x.e)

DLeq(x, y) == DAdd(y, FNeg(x)).m >= 0

\* ((SellPrice - BuyPrice) / BuyPrice) x 100, as the floats compute it.
PriceGainPct(r) ==
    FMul(FDiv(FSub(r.SellPrice, r.BuyPrice), r.BuyPrice), Hundred)

\* |x - y| <= 16 * 2^-Precision * 100 * (Sell + Dividend + Buy) / Buy.
WithinRounding(x, y, r) ==
    DLeq(DMul(DMul(DAbs(DAdd(x, FNeg(y))), r.BuyPrice), Fin(2^Precision, 0)),
         DMul(Fin(1600, 0),
              DAdd(DAdd(r.SellPrice, r.Dividend), r.BuyPrice)))

\* The two percentages of a row, from the row's own prices and dividend.
GainsFromOwnFields(r) ==
    /\ FEq(r.NetGainPct,
           FMul(FDiv(FSub(FAdd(r.SellPrice, r.Dividend), r.BuyPrice),
                     r.BuyPrice), Hundred))
    /\ FEq(r.DividendGainPct, FMul(FDiv(r.Dividend, r.BuyPrice), Hundred))
    /\ \A i \in RowsOf(r.ExDate.d) :
          FEq(results[i].DividendGainPct, r.DividendGainPct)

\* C6, as claimed: with BuyPrice > 0 the percentages are the two formulas
\* on the row's own fields, DividendGainPct is one value per event, and
\* NetGainPct - DividendGainPct equals ((Sell - Buy) / Buy) x 100.
C6_AsClaimed ==
    \A j \in 1..Len(results) :
        FPos(results[j].BuyPrice) =>
            /\ GainsFromOwnFields(results[j])
            /\ FEq(FSub(results[j].NetGainPct, results[j].DividendGainPct),
                   PriceGainPct(results[j]))

\* C6, amended: the same, with NetGainPct - DividendGainPct equal to
\* ((Sell - Buy) / Buy) x 100 up to the rounding of the floating-point
\* operations only.
C6_GainFormulas ==
    \A j \in 1..Len(results) :
        FPos(results[j].BuyPrice) =>
            /\ GainsFromOwnFields(results[j])
            /\ WithinRounding(FSub(results[j].NetGainPct,
                                   results[j].DividendGainPct),
                              PriceGainPct(results[j]), results[j])

C6_Witness ==
    /\ pc = "done"
    /\ \E j \in 1..Len(results) :
          /\ FPos(results[j].BuyPrice)
          /\ results[j].DaysHeld > 1
          /\ ~FEq(FSub(results[j].NetGainPct, results[j].DividendGainPct),
                  PriceGainPct(results[j]))

\* The position in the dividend series of the event of row j.
EventIndex(j) ==
    CHOOSE i \in 1..Len(Events) : Events[i].ts.d = results[j].ExDate.d

\* C7, as claimed: rows are grouped by event, the groups in chronological
\* order of ExDate, each group in increasing holding period, in whatever
\* order the events arrive.
C7_AsClaimed ==
    \A i, j \in 1..Len(results) :
        i < j =>
            \/ results[i].ExDate.d < results[j].ExDate.d
            \/ /\ results[i].ExDate.d = results[j].ExDate.d
               /\ results[i].DaysHeld < results[j].DaysHeld

EventsAscending ==
    \A i, j \in 1..Len(Events) : i < j => Events[i].ts.d < Events[j].ts.d

\* C7, amended: rows are grouped by event, the groups in the order the
\* events have in the dividend series, each group in increasing holding
\* period; the groups are chronological when the series is.
C7_SeriesOrder ==
    /\ \A i, j \in 1..Len(results) :
          i < j =>
              \/ EventIndex(i) < EventIndex(j)
              \/ /\ EventIndex(i) = EventIndex(j)
                 /\ results[i].DaysHeld < results[j].DaysHeld
    /\ EventsAscending => C7_AsClaimed

C7_Witness ==
    /\ pc = "done"
    /\ ~EventsAscending
    /\ \E i, j \in 1..Len(results) :
          /\ i < j
          /\ results[i].ExDate.d > results[j].ExDate.d
          /\ results[j].DaysHeld > 1

\* C8: a second invocation on the objects the first one processed returns
\* the table the first returned, and either is the table of a fresh call.
C8_Idempotent ==
    pc = "done" =>
        /\ raised = "none"
        /\ results = Strategy(provider, max_days).table
        /\ run = 2 => results = first

C8_Witness ==
    /\ pc = "done"
    /\ run = 2
    /\ results # << >>
    /\ provider.history.tz # "None"
    /\ provider.dividends.tz # "None"
    /\ history.tz = "None"
    /\ dividends.tz = "None"

\* C9, as claimed: an event on the civil date of a session at position >= 1
\* gets rows, whatever timezone and time of day either timestamp carries.
C9_AsClaimed ==
    (pc = "done" /\ ~Unavailable) =>
        \A i \in 1..Len(Events) :
            (\E p \in SessionsOn(Events[i]) : p >= 2)
                => RowsOf(Events[i].ts.d) # {}

\* C9, amended: before alignment both indexes are timezone-naive with
\* their wall-clock date and time of day kept, so an event on the civil
\* date of a session at position >= 1 gets rows exactly when the two
\* timestamps carry the same time of day, whatever their timezones.
C9_WallClockMatch ==
    /\ (pc = "loop" \/ (pc = "done" /\ ~Unavailable)) =>
          /\ history = [provider.history EXCEPT !.tz = "None"]
          /\ dividends = [provider.dividends EXCEPT !.tz = "None"]
    /\ (pc = "done" /\ ~Unavailable) =>
          \A i \in 1..Len(Events) :
              \A p \in SessionsOn(Events[i]) :
                  p >= 2 =>
                      ((Sessions[p].ts.t = Events[i].ts.t)
                          <=> RowsOf(Events[i].ts.d) # {})

C9_Witness ==
    /\ pc = "done"
    /\ provider.history.tz = "America/New_York"
    /\ provider.dividends.tz = "UTC"
    /\ results # << >>

\* C10: after any ticker edits and Analyze presses, the latest press decides
\* what is stored and drawn: an empty result shows the error message and
\* leaves nothing stored or drawn; a result with rows shows the success
\* message, and it and its ticker are what every run draws from then on.
C10_LatestAnalysisShown ==
    /\ message \in {"none", "error", "success"}
    /\ (message # "none") = (event = "analyze")
    /\ (event = "analyze") => (message = "error") = (last.table = << >>)
    /\ (~last.pressed \/ last.table = << >>) =>
          /\ session.df = NoDf
          /\ rendered = Nothing
    /\ (last.pressed /\ last.table # << >>) =>
          /\ session.df.kind = "frame"
          /\ session.df.rows = last.table
          /\ session.current_ticker = last.ticker
          /\ rendered.drawn
          /\ rendered.log = last.table
          /\ rendered.title = last.ticker

C10_Witness ==
    /\ event = "analyze"
    /\ message = "error"
    /\ last.table = << >>
    /\ session.current_ticker # "None"
    /\ rendered = Nothing

====
